---- MODULE Spec2Model ----
(***************************************************************************)
(* Model of archive_bot.py: the archival pipeline of a wiki bot.           *)
(*                                                                         *)
(* Page text is a sequence of tokens.  A token stands for a run of         *)
(* characters that the bot's regular expressions and string operations     *)
(* treat as a unit:                                                        *)
(*   "{{" "}}" "|" " " "\n"   the characters themselves                    *)
(*   "AR"      the template name  Archive recommendation                   *)
(*   "AD"      the template name  Archived                                 *)
(*   "date="   the argument key                                            *)
(*   "Jan1"    the date text  January 1, 2023                              *)
(*   "Feb1"    the date text  February 1, 2023                             *)
(*   "august1" the date text  august 1, 2022  (lower-case month)           *)
(*   "ugust1"  what str.strip('date=') leaves of "august1"                 *)
(*   "today"   datetime.now() formatted as  %B %d, %Y                      *)
(*   "x"       a one-letter word                                           *)
(*   "?"       a regex quantifier character                                *)
(*   "("       an opening parenthesis                                      *)
(*   "FLAG"    the text  Articles flagged to be archived                   *)
(*   "ARCH"    the text  Articles Archived                                 *)
(***************************************************************************)
EXTENDS Integers, Sequences, FiniteSets

(* ------------------------------ bounds --------------------------------- *)

\* largest number of segments concatenated into a page text (text functions)
MaxSegs == 2
\* largest category with freely chosen page texts (pipeline)
MaxPages == 2
\* how many members beyond one full batch a large category may have
ExtraMembers == 1
\* number of scheduled runs of the bot in one behaviour
MaxRuns == 2
\* instants of a day that datetime.now() can fall on (0 is midnight)
TicksPerDay == 2
\* days around the 30-day boundary that "today" is drawn from
Horizon == 1

(* ------------------------- program constants --------------------------- *)

PAGES_LIMIT == 20
ArchiveAge == 30

(* ------------------------------- dates --------------------------------- *)

\* day number of the date a date text denotes (January 1, 2023 is day 1)
DayOf(tok, nowDay) ==
    CASE tok = "Jan1" -> 1
      [] tok = "Feb1" -> 32
      [] tok = "august1" -> 0 - 152
      [] tok = "today" -> nowDay

DateTexts == {"Jan1", "Feb1", "august1", "today"}

\* the instants datetime.now() is drawn from: around 30 days after Jan1,
\* and the day before Jan1 (a marker dated in the future)
NowSet ==
    [day : {1 + ArchiveAge + k : k \in (0 - Horizon)..Horizon} \cup {0},
     tick : 0..(TicksPerDay - 1)]

\* the instants a run of the bot is started at: every instant of the day 30
\* days after Jan1, and midnight of the day before Jan1
RunNows == {n \in NowSet : n.day = 1 + ArchiveAge \/ (n.day = 0 /\ n.tick = 0)}

(* --------------------------- text functions ---------------------------- *)

RECURSIVE SkipWs(_, _)
\* \s* : the position after the white space starting at j
SkipWs(t, j) ==
    IF j <= Len(t) /\ t[j] = " " THEN SkipWs(t, j + 1) ELSE j

\* r"\{{2}\s*"+template_name+"\s*\|" matched at position i exactly:
\* the position of its last token, or 0 when it does not match there
FrontEnd(template_name, t, i) ==
    IF i <= Len(t) /\ t[i] = "{{"
    THEN LET a == SkipWs(t, i + 1) IN
         IF a <= Len(t) /\ t[a] = template_name
         THEN LET b == SkipWs(t, a + 1) IN
              IF b <= Len(t) /\ t[b] = "|" THEN b ELSE 0
         ELSE 0
    ELSE 0

\* re.search(r"\{{2}\s*"+template_name+"\s*\|", template)
SearchFront(template_name, t) ==
    \E i \in 1..Len(t) : FrontEnd(template_name, t, i) > 0

RECURSIVE SplitLines(_)
\* the lines of a text ('.' does not match a newline)
SplitLines(text) ==
    IF \A i \in 1..Len(text) : text[i] # "\n"
    THEN <<text>>
    ELSE LET n == CHOOSE i \in 1..Len(text) :
                      text[i] = "\n" /\ \A j \in 1..(i - 1) : text[j] # "\n"
         IN <<SubSeq(text, 1, n - 1)>> \o SplitLines(SubSeq(text, n + 1, Len(text)))

\* the one match of r"\{{2}.*\}{2}" in a line: greedy, from the first "{{"
\* that has a "}}" after it to the last "}}" of the line
LineMatch(line) ==
    LET opens == {i \in 1..Len(line) : line[i] = "{{"}
        closes == {i \in 1..Len(line) : line[i] = "}}"}
    IN IF opens = {} \/ closes = {} THEN <<>>
       ELSE LET fo == CHOOSE i \in opens : \A j \in opens : i <= j
                lc == CHOOSE i \in closes : \A j \in closes : j <= i
            IN IF fo < lc THEN <<SubSeq(line, fo, lc)>> ELSE <<>>

RECURSIVE FindAll(_)
\* re.findall(r"\{{2}.*\}{2}", text) over a sequence of lines
FindAll(lines) ==
    IF lines = <<>> THEN <<>>
    ELSE LineMatch(Head(lines)) \o FindAll(Tail(lines))

RECURSIVE KeepFront(_, _)
\* the templates of a sequence in which the front pattern is found
KeepFront(template_name, ts) ==
    IF ts = <<>> THEN <<>>
    ELSE (IF SearchFront(template_name, Head(ts)) THEN <<Head(ts)>> ELSE <<>>)
         \o KeepFront(template_name, Tail(ts))

parse_template(template_name, text) ==
    KeepFront(template_name, FindAll(SplitLines(text)))

RECURSIVE RemoveFronts(_, _, _)
\* re.sub(r"\{{2}\s*"+template_name+"\s*\|", "", template), scanning from i
RemoveFronts(template_name, t, i) ==
    IF i > Len(t) THEN <<>>
    ELSE LET e == FrontEnd(template_name, t, i) IN
         IF e > 0 THEN RemoveFronts(template_name, t, e + 1)
         ELSE <<t[i]>> \o RemoveFronts(template_name, t, i + 1)

grab_template_info(template_name, template) ==
    SelectSeq(RemoveFronts(template_name, template, 1), LAMBDA c : c # "}}")

RECURSIVE MapInfo(_, _)
MapInfo(template_name, ts) ==
    IF ts = <<>> THEN <<>>
    ELSE <<grab_template_info(template_name, Head(ts))>>
         \o MapInfo(template_name, Tail(ts))

grab_template_data(template_name, text) ==
    MapInfo(template_name, parse_template(template_name, text))

RECURSIVE LStrip(_)
\* the left half of str.strip('date='): drops leading characters in the set
\* {d, a, t, e, =}, so it eats the key and the first letter of "august"
LStrip(s) ==
    IF s = <<>> THEN s
    ELSE IF Head(s) = "date=" THEN LStrip(Tail(s))
    ELSE IF Head(s) = "august1" THEN <<"ugust1">> \o Tail(s)
    ELSE s

RECURSIVE RStrip(_)
\* the right half of str.strip('date=')
RStrip(s) ==
    IF s = <<>> THEN s
    ELSE IF s[Len(s)] = "date=" THEN RStrip(SubSeq(s, 1, Len(s) - 1))
    ELSE s

\* dateutil.parser.parse: white space is skipped, exactly one date text is
\* accepted, anything else raises ParserError.  A date text has no time of
\* day, so the result is midnight of its day.
ParserParse(s, nowDay) ==
    LET words == SelectSeq(s, LAMBDA c : c # " ") IN
    IF Len(words) = 1 /\ words[1] \in DateTexts
    THEN [ok |-> TRUE, day |-> DayOf(words[1], nowDay)]
    ELSE [ok |-> FALSE, day |-> 0]

parse_date(date_string, nowDay) ==
    ParserParse(RStrip(LStrip(date_string)), nowDay)

\* date < (datetime.now() - timedelta(days=30)), both as instants
OlderThanCutoff(day, now) ==
    day * TicksPerDay < (now.day * TicksPerDay + now.tick) - ArchiveAge * TicksPerDay

RECURSIVE OldLoop(_, _)
\* the for loop of old_page: the first date that fails to parse raises, the
\* first old date returns True
OldLoop(dates, now) ==
    IF dates = <<>> THEN "NotEligible"
    ELSE LET d == parse_date(Head(dates), now.day) IN
         IF ~d.ok THEN "ParserError"
         ELSE IF OlderThanCutoff(d.day, now) THEN "Eligible"
         ELSE OldLoop(Tail(dates), now)

old_page(text, now) ==
    OldLoop(grab_template_data("AR", text), now)

(* ------------------------- re.sub and the mutator ---------------------- *)

\* template.replace('|', '\|'): the one character the code escapes
EscapePipe(template) ==
    [i \in 1..Len(template) |->
        IF template[i] = "|" THEN "\\|" ELSE template[i]]

\* the text a pattern element matches literally
Lit(c) == IF c = "\\|" THEN "|" ELSE c

\* re.compile fails on a pattern with an unclosed parenthesis
CompileError(p) == \E i \in 1..Len(p) : p[i] = "("

RECURSIVE MatchAt(_, _, _, _)
\* One alternative p, matched from its element pi against s at position si:
\* the position after the match, or 0.  "?" makes the element before it
\* optional (greedy); every other element matches itself.
MatchAt(p, pi, s, si) ==
    IF pi > Len(p) THEN si
    ELSE IF pi < Len(p) /\ p[pi + 1] = "?"
    THEN LET with == IF si <= Len(s) /\ s[si] = Lit(p[pi])
                     THEN MatchAt(p, pi + 2, s, si + 1) ELSE 0
         IN IF with > 0 THEN with ELSE MatchAt(p, pi + 2, s, si)
    ELSE IF p[pi] = "?" THEN MatchAt(p, pi + 1, s, si)
    ELSE IF si <= Len(s) /\ s[si] = Lit(p[pi])
         THEN MatchAt(p, pi + 1, s, si + 1) ELSE 0

RECURSIVE Alternatives(_)
\* the alternatives of a pattern: an unescaped "|" separates them
Alternatives(p) ==
    IF \A i \in 1..Len(p) : p[i] # "|" THEN <<p>>
    ELSE LET n == CHOOSE i \in 1..Len(p) :
                      p[i] = "|" /\ \A j \in 1..(i - 1) : p[j] # "|"
         IN <<SubSeq(p, 1, n - 1)>> \o Alternatives(SubSeq(p, n + 1, Len(p)))

RECURSIVE FirstAlt(_, _, _)
\* the first alternative that matches at si decides the match
FirstAlt(alts, s, si) ==
    IF alts = <<>> THEN 0
    ELSE LET e == MatchAt(Head(alts), 1, s, si) IN
         IF e > 0 THEN e ELSE FirstAlt(Tail(alts), s, si)

RECURSIVE ReSub(_, _, _, _)
\* re.sub(pattern, repl, s): every non-overlapping match, leftmost first, is
\* replaced (an empty match replaces nothing here: it only inserts repl, and
\* no pattern built from a template is empty)
ReSub(alts, repl, s, i) ==
    IF i > Len(s) THEN <<>>
    ELSE LET e == FirstAlt(alts, s, i) IN
         IF e > i THEN repl \o ReSub(alts, repl, s, e)
         ELSE <<s[i]>> \o ReSub(alts, repl, s, i + 1)

\* r'{{Archived|date=' + "{0:%B} {0:%d}, {0:%Y}".format(datetime.now()) + "}}"
ArchivedMarker == <<"{{", "AD", "|", "date=", "today", "}}">>

RECURSIVE TemplateLoop(_, _)
\* the for loop of update_template over the templates found in the old text
TemplateLoop(templates, new_text) ==
    IF templates = <<>> THEN [ok |-> TRUE, text |-> new_text]
    ELSE LET pattern == EscapePipe(Head(templates)) IN
         IF CompileError(pattern) THEN [ok |-> FALSE, text |-> new_text]
         ELSE TemplateLoop(Tail(templates),
                           ReSub(Alternatives(pattern), ArchivedMarker, new_text, 1))

\* ok = FALSE: re.error was raised and page.text was not assigned
update_template(text) ==
    LET r == TemplateLoop(parse_template("AR", text), text) IN
    IF r.ok THEN r ELSE [ok |-> FALSE, text |-> text]

\* page.text.replace(old_cat, new_cat)
ReplaceCategory(text, old_cat, new_cat) ==
    [i \in 1..Len(text) |-> IF text[i] = old_cat THEN new_cat ELSE text[i]]

(* --------------------------- input page texts -------------------------- *)

Marker(d) == <<"{{", "AR", "|", "date=", d, "}}">>
SpacedMarker == <<"{{", " ", "AR", " ", "|", "date=", "Jan1", "}}">>
NoPipeMarker == <<"{{", "AR", " ", "date=", "Jan1", "}}">>

Segments ==
    {Marker("Jan1"), Marker("Feb1"), Marker("august1"), Marker("x"),
     SpacedMarker, NoPipeMarker, ArchivedMarker,
     <<"{{", "x", "}}">>, <<"{{", "x", "?", "}}">>, <<"{{", "(", "}}">>,
     <<"x">>, <<" ">>, <<"\n">>, <<"FLAG">>, <<"?">>, <<"(">>}

RECURSIVE TextsOf(_)
\* the concatenations of at most n segments
TextsOf(n) ==
    IF n = 0 THEN {<<>>}
    ELSE LET shorter == TextsOf(n - 1) IN
         shorter \cup {t \o s : t \in shorter, s \in Segments}

(* ------------------------------ the wiki ------------------------------- *)

\* page texts of the members of the flagged category
PageTexts ==
    {<<"FLAG", "\n">> \o Marker("Jan1"),
     <<"FLAG", "\n", "x">>,
     <<"FLAG", "\n">> \o NoPipeMarker,
     <<"FLAG", "\n">> \o Marker("x"),
     <<"FLAG", "\n">> \o Marker("Jan1") \o <<"\n">> \o Marker("Jan1")
         \o <<" ">> \o Marker("Feb1"),
     <<"FLAG", "\n">> \o Marker("Jan1") \o <<"\n", "{{", "(", "}}">>
         \o Marker("Feb1")}

VARIABLES
    wiki,          \* page id -> [text, ns]: the pages of the wiki
    members,       \* the pages the server lists in the flagged category
    rev_page,      \* REV_PAGE: [exists, title]; title 0 is an empty page
    now,           \* datetime.now(): [day, tick]
    run,           \* number of the current run of the bot
    pc,            \* position of the run in main / modify_pages / update_page
    err,           \* the exception that ended the run, "" if none
    last_title,    \* main's last_title; 0 is the empty string
    pages_json,    \* shape of the category listing response
    listing,       \* pages_json['query']['categorymembers']
    idx,           \* position of the for loop of modify_pages in listing
    page,          \* update_page's in-memory page object: [id, text]
    ops,           \* the saves and moves issued in this run, in order
    outcome,       \* page id -> what old_page did for it in this run
    conflict,      \* pages whose move met an existing destination
    archived,      \* pages saved with the marker update_template writes
    archivedPrev,  \* archived, as it was when this run started
    start,         \* wiki, as it was when this run started
    startMembers,  \* members, as it was when this run started
    snapshot,      \* members, as it was when the listing was requested
    lagging,       \* the server lists a page in a category its text has left
    probe          \* a text function applied alone: [op, text, verdict, ok, out]

vars == <<wiki, members, rev_page, now, run, pc, err, last_title, pages_json,
          listing, idx, page, ops, outcome, conflict, archived, archivedPrev,
          start, startMembers, snapshot, lagging, probe>>

Ids == DOMAIN wiki

NoPage == [id |-> 0, text |-> <<>>]
ProbeOff == [op |-> "off", text |-> <<>>, verdict |-> "none", ok |-> TRUE, out |-> <<>>]

\* the sizes a category starts with: small with free texts, or one or more
\* members beyond a full batch with one text for all
SmallSizes == 0..MaxPages
LargeSizes == PAGES_LIMIT..(PAGES_LIMIT + ExtraMembers)

InitWiki(n, texts) ==
    /\ wiki = [i \in 1..n |-> [text |-> texts[i], ns |-> "Main"]]
    /\ members = 1..n
    /\ rev_page \in {[exists |-> FALSE, title |-> 0], [exists |-> TRUE, title |-> 0]}
                    \cup {[exists |-> TRUE, title |-> k] : k \in (1..n) \cap {1}}
    /\ now \in RunNows
    /\ run = 1
    /\ pc = "main"
    /\ err = ""
    /\ last_title = 0
    /\ pages_json = "none"
    /\ listing = <<>>
    /\ idx = 0
    /\ page = NoPage
    /\ ops = <<>>
    /\ outcome = [i \in 1..n |-> "none"]
    /\ conflict = {}
    /\ archived = {}
    /\ archivedPrev = {}
    /\ start = wiki
    /\ startMembers = members
    /\ snapshot = {}
    /\ lagging \in BOOLEAN
    /\ probe = ProbeOff

Init ==
    \/ \E n \in SmallSizes : \E texts \in [1..n -> PageTexts] : InitWiki(n, texts)
    \/ \E n \in LargeSizes : \E t \in PageTexts : InitWiki(n, [i \in 1..n |-> t])

(* ------------------------------ main ----------------------------------- *)

\* check_last_page: a missing REV_PAGE is created empty; an empty one and
\* one without a title give ""; otherwise the stored title
CheckLastPage ==
    /\ pc = "main"
    /\ rev_page' = IF rev_page.exists THEN rev_page ELSE [exists |-> TRUE, title |-> 0]
    /\ last_title' = IF rev_page.exists THEN rev_page.title ELSE 0
    /\ pc' = "request"
    /\ UNCHANGED <<wiki, members, now, run, err, pages_json, listing, idx, page,
                   ops, outcome, conflict, archived, archivedPrev, start,
                   startMembers, snapshot, lagging, probe>>

RECURSIVE Ascending(_)
\* a set of page ids as a sequence in title order
Ascending(S) ==
    IF S = {} THEN <<>>
    ELSE LET m == CHOOSE x \in S : \A y \in S : x <= y
         IN <<m>> \o Ascending(S \ {m})

\* the server's answer to get_params(continue_from): at most cmlimit members,
\* from the start of the category or from after the cmcontinue title
get_params(continue_from) ==
    LET all == Ascending({p \in members : p > continue_from}) IN
    IF Len(all) <= PAGES_LIMIT THEN all ELSE SubSeq(all, 1, PAGES_LIMIT)

\* modify_pages with a guard that turns a response without the expected
\* fields into an empty listing
ModifyPagesPcLenient(shape) == "loop"

\* modify_pages after the response arrived: a response without 'query' or
\* without 'categorymembers' is printed, and the next subscript of it raises
\* KeyError; otherwise the for loop starts
ModifyPagesPc(shape) == IF shape = "members" THEN "loop" ELSE "crashed"

\* modify_pages, the request: one GET, whatever the size of the category
FetchMembers ==
    /\ pc = "request"
    /\ \E shape \in {"members", "no_query", "no_categorymembers"} :
        /\ pages_json' = shape
        /\ pc' = ModifyPagesPc(shape)
        /\ err' = IF ModifyPagesPc(shape) = "crashed" THEN "KeyError" ELSE ""
        /\ listing' = IF shape = "members" THEN get_params(last_title) ELSE <<>>
    /\ idx' = 1
    /\ snapshot' = members
    /\ UNCHANGED <<wiki, members, rev_page, now, run, last_title, page, ops,
                   outcome, conflict, archived, archivedPrev, start,
                   startMembers, lagging, probe>>

(* ---------------------------- update_page ------------------------------ *)

\* update_page without the else: the mutator runs whatever old_page returned
UpdatePageBranchAlways(res) ==
    CASE res \in {"Eligible", "NotEligible"} -> "template"
      [] OTHER -> "crashed"

\* update_page's branch on old_page(page): True runs the mutator, False only
\* prints, and an exception of old_page leaves update_page and modify_pages
UpdatePageBranch(res) ==
    CASE res = "Eligible" -> "template"
      [] res = "NotEligible" -> "loop"
      [] OTHER -> "crashed"

\* one iteration of the for loop of modify_pages, up to the branch
OldPage ==
    /\ pc = "loop"
    /\ idx <= Len(listing)
    /\ LET p == listing[idx]
           res == old_page(wiki[p].text, now)
           to == UpdatePageBranch(res)
       IN /\ outcome' = [outcome EXCEPT ![p] = res]
          /\ pc' = to
          /\ err' = IF to = "crashed" THEN "ParserError" ELSE err
          /\ page' = IF to = "template" THEN [id |-> p, text |-> wiki[p].text]
                     ELSE NoPage
          /\ idx' = IF to = "loop" THEN idx + 1 ELSE idx
    /\ UNCHANGED <<wiki, members, rev_page, now, run, last_title, pages_json,
                   listing, ops, conflict, archived, archivedPrev, start,
                   startMembers, snapshot, lagging, probe>>

\* update_template(page): page.text is assigned unless re.sub raised
UpdateTemplate ==
    /\ pc = "template"
    /\ LET r == update_template(page.text) IN
       /\ page' = [page EXCEPT !.text = r.text]
       /\ pc' = IF r.ok THEN "category" ELSE "crashed"
       /\ err' = IF r.ok THEN err ELSE "re.error"
    /\ UNCHANGED <<wiki, members, rev_page, now, run, last_title, pages_json,
                   listing, idx, ops, outcome, conflict, archived, archivedPrev,
                   start, startMembers, snapshot, lagging, probe>>

\* does a text carry the marker update_template writes
CarriesArchived(text) ==
    \E i \in 1..Len(text) :
        /\ i + Len(ArchivedMarker) - 1 <= Len(text)
        /\ SubSeq(text, i, i + Len(ArchivedMarker) - 1) = ArchivedMarker

\* update_category(page, old, new): replace in memory, then page.save().
\* A lagging server goes on listing the page in the old category (its
\* category table is refreshed later, or the category comes from a template).
UpdateCategory ==
    /\ pc = "category"
    /\ LET p == page.id
           text == ReplaceCategory(page.text, "FLAG", "ARCH")
       IN /\ page' = [page EXCEPT !.text = text]
          /\ wiki' = [wiki EXCEPT ![p].text = text]
          /\ ops' = Append(ops, <<"save", p>>)
          /\ archived' = IF CarriesArchived(text) THEN archived \cup {p} ELSE archived
          /\ members' = IF lagging \/ (\E i \in 1..Len(text) : text[i] = "FLAG")
                        THEN members ELSE members \ {p}
    /\ pc' = "move"
    /\ UNCHANGED <<rev_page, now, run, err, last_title, pages_json, listing, idx,
                   outcome, conflict, archivedPrev, start, startMembers,
                   snapshot, lagging, probe>>

\* move_namespace(page, "Archive"), the move succeeds
MoveNamespace ==
    /\ pc = "move"
    /\ wiki[page.id].ns = "Main"
    /\ ops' = Append(ops, <<"move", page.id>>)
    /\ wiki' = [wiki EXCEPT ![page.id].ns = "Archive"]
    /\ page' = NoPage
    /\ idx' = idx + 1
    /\ pc' = "loop"
    /\ UNCHANGED <<members, rev_page, now, run, err, last_title, pages_json,
                   listing, outcome, conflict, archived, archivedPrev, start,
                   startMembers, snapshot, lagging, probe>>

\* the pages whose title may already be taken in the Archive namespace
MayExist == 1..MaxPages

\* move_namespace(page, "Archive"), page.move raises (the destination exists,
\* or the page already is in Archive): the except clause names
\* ArticleExistsConflictError, which the module never imports, so evaluating
\* the clause raises NameError and the run ends
MoveRaises ==
    /\ pc = "move"
    /\ page.id \in MayExist \/ wiki[page.id].ns = "Archive"
    /\ ops' = Append(ops, <<"move", page.id>>)
    /\ conflict' = conflict \cup {page.id}
    /\ pc' = "crashed"
    /\ err' = "NameError"
    /\ UNCHANGED <<wiki, members, rev_page, now, run, last_title, pages_json,
                   listing, idx, page, outcome, archived, archivedPrev, start,
                   startMembers, snapshot, lagging, probe>>

\* the for loop is exhausted: modify_pages returns and main prints
\* "No pages left to be tagged" (update_last_page is commented out)
Finish ==
    /\ pc = "loop"
    /\ idx > Len(listing)
    /\ pc' = "done"
    /\ UNCHANGED <<wiki, members, rev_page, now, run, err, last_title, pages_json,
                   listing, idx, page, ops, outcome, conflict, archived,
                   archivedPrev, start, startMembers, snapshot, lagging, probe>>

\* the scheduled job starts the bot again
StartRun ==
    /\ pc \in {"done", "crashed"}
    /\ run < MaxRuns
    /\ run' = run + 1
    /\ pc' = "main"
    /\ err' = ""
    /\ last_title' = 0
    /\ pages_json' = "none"
    /\ listing' = <<>>
    /\ idx' = 0
    /\ page' = NoPage
    /\ ops' = <<>>
    /\ outcome' = [i \in Ids |-> "none"]
    /\ conflict' = {}
    /\ archivedPrev' = archived
    /\ start' = wiki
    /\ startMembers' = members
    /\ snapshot' = {}
    /\ UNCHANGED <<wiki, members, rev_page, now, archived, lagging, probe>>

Next ==
    \/ CheckLastPage
    \/ FetchMembers
    \/ OldPage
    \/ UpdateTemplate
    \/ UpdateCategory
    \/ MoveNamespace
    \/ MoveRaises
    \/ Finish
    \/ StartRun

Spec == Init /\ [][Next]_vars

(* ---------------------- the text functions alone ----------------------- *)

InitText ==
    /\ wiki = <<>>
    /\ members = {}
    /\ rev_page = [exists |-> FALSE, title |-> 0]
    /\ now \in NowSet
    /\ run = 1
    /\ pc = "probe"
    /\ err = ""
    /\ last_title = 0
    /\ pages_json = "none"
    /\ listing = <<>>
    /\ idx = 0
    /\ page = NoPage
    /\ ops = <<>>
    /\ outcome = <<>>
    /\ conflict = {}
    /\ archived = {}
    /\ archivedPrev = {}
    /\ start = <<>>
    /\ startMembers = {}
    /\ snapshot = {}
    /\ lagging = FALSE
    /\ \E t \in TextsOf(MaxSegs) :
          probe = [op |-> "none", text |-> t, verdict |-> "none", ok |-> TRUE, out |-> <<>>]

ProbeFrame ==
    UNCHANGED <<wiki, members, rev_page, now, run, pc, err, last_title,
                pages_json, listing, idx, page, ops, outcome, conflict, archived,
                archivedPrev, start, startMembers, snapshot, lagging>>

\* old_page applied to the text
ProbeOldPage ==
    /\ pc = "probe"
    /\ probe.op = "none"
    /\ probe' = [probe EXCEPT !.op = "old_page", !.verdict = old_page(probe.text, now)]
    /\ ProbeFrame

\* update_template applied to the text
ProbeUpdateTemplate ==
    /\ pc = "probe"
    /\ probe.op = "none"
    /\ LET r == update_template(probe.text) IN
       probe' = [probe EXCEPT !.op = "update_template", !.ok = r.ok, !.out = r.text]
    /\ ProbeFrame

NextText == ProbeOldPage \/ ProbeUpdateTemplate

SpecText == InitText /\ [][NextText]_vars

(* ------------------------------ claims --------------------------------- *)

\* the kinds of the operations issued for page p in this run, in order
OpsOf(p) ==
    LET mine == SelectSeq(ops, LAMBDA e : e[2] = p) IN
    [i \in 1..Len(mine) |-> mine[i][1]]

\* update_page is between its branch and its return
InUpdatePage == pc \in {"template", "category", "move"}

\* C1: for every page update_page found Eligible, once update_page has ended
\* the operations issued for it are exactly one save followed by one move,
\* and the saved text is the category swap of the marker rewrite of the text
\* the run found.
C1_SaveThenMove ==
    \A p \in Ids :
        (outcome[p] = "Eligible" /\ ~InUpdatePage) =>
            /\ OpsOf(p) = <<"save", "move">>
            /\ wiki[p].text =
                  ReplaceCategory(update_template(start[p].text).text, "FLAG", "ARCH")

\* C2: a page archived by an earlier run and processed by this run is
\* evaluated NotEligible, no save and no move are issued for it, and its text
\* and namespace are those the run found.
C2_Idempotent ==
    \A p \in archivedPrev :
        outcome[p] # "none" =>
            /\ outcome[p] = "NotEligible"
            /\ OpsOf(p) = <<>>
            /\ wiki[p] = start[p]

\* the well-formed dates a marker is written with
HumanDates == {"Jan1", "Feb1", "august1"}

\* the positions of a text where a well-formed Flagged marker starts
WellFormedAt(text) ==
    {i \in 1..Len(text) :
        LET e == FrontEnd("AR", text, i) IN
        /\ e > 0
        /\ e + 3 <= Len(text)
        /\ text[e + 1] = "date="
        /\ text[e + 2] \in HumanDates
        /\ text[e + 3] = "}}"}

\* the text has one Flagged invocation, and it is well formed
OneWellFormed(text) ==
    /\ Cardinality(WellFormedAt(text)) = 1
    /\ Cardinality({i \in 1..Len(text) : FrontEnd("AR", text, i) > 0}) = 1

\* the calendar date of the one well-formed marker of a text
MarkerDay(text) ==
    LET i == CHOOSE j \in WellFormedAt(text) : TRUE IN
    DayOf(text[FrontEnd("AR", text, i) + 2], 0)

\* C3: for a text with exactly one well-formed Flagged marker of calendar date
\* D, old_page returns Eligible if and only if D is strictly earlier than
\* today minus 30 days.
C3_EligibleIffOlder ==
    (probe.op = "old_page" /\ OneWellFormed(probe.text)) =>
        (probe.verdict = "Eligible" <=> MarkerDay(probe.text) < now.day - ArchiveAge)

\* every Flagged marker of the text has a date that does not parse
UnparsableOnly(text) ==
    LET dates == grab_template_data("AR", text) IN
    /\ dates # <<>>
    /\ \A i \in 1..Len(dates) : ~parse_date(dates[i], now.day).ok

\* C4: a page whose Flagged marker has an unparsable date is evaluated
\* NotEligible and the run is not ended by the parse error.
C4_UnparsableSkipped ==
    \A p \in Ids :
        (UnparsableOnly(start[p].text) /\ outcome[p] # "none") =>
            (outcome[p] = "NotEligible" /\ err # "ParserError")

\* C5: a page whose move met an existing destination keeps its title, has the
\* rewritten marker and the swapped category, and the run goes on.
C5_MoveFailureConfined ==
    \A p \in conflict :
        /\ wiki[p].ns = "Main"
        /\ CarriesArchived(wiki[p].text)
        /\ pc # "crashed"

\* the pages old_page was applied to in this run
Processed == {p \in Ids : outcome[p] # "none"}

\* C6: a run that started without a checkpoint and reached Done has processed
\* every member the category had when the listing was requested.
C6_PaginationComplete ==
    (pc = "done" /\ last_title = 0) => Processed = snapshot

\* C7: when a run that processed at least one page reaches Done, the
\* checkpoint page holds the title of the last processed page.
C7_CheckpointWritten ==
    (pc = "done" /\ Len(listing) > 0) =>
        (rev_page.exists /\ rev_page.title = listing[Len(listing)])

\* C8: for a text in which parse_template finds a Flagged invocation,
\* update_template completes and leaves no Flagged invocation to extract.
C8_RewriteRoundTrip ==
    (probe.op = "update_template" /\ parse_template("AR", probe.text) # <<>>) =>
        (probe.ok /\ parse_template("AR", probe.out) = <<>>)

\* C9: after a listing response without 'query' or without 'categorymembers'
\* the run has ended with an exception, never reports completion, and no page
\* was evaluated, saved or moved; after a response with zero members the run
\* has no exception, evaluates nothing and can complete.
C9_MalformedHalts ==
    /\ pages_json \in {"no_query", "no_categorymembers"} =>
          /\ pc = "crashed"
          /\ err = "KeyError"
          /\ ops = <<>>
          /\ Processed = {}
    /\ (pages_json = "members" /\ listing = <<>>) =>
          /\ pc \in {"loop", "done"}
          /\ err = ""
          /\ ops = <<>>
          /\ Processed = {}
          /\ (pc = "loop" => ENABLED Finish)

\* C9 witness: a category with members, a response without 'categorymembers'
C9_Witness ==
    /\ pages_json = "no_categorymembers"
    /\ pc = "crashed"
    /\ members # {}

\* C10: for a page old_page found NotEligible no save and no move is issued
\* in the run, and its text, title and category membership are those the run
\* found.
C10_SkippedUntouched ==
    \A p \in Ids :
        outcome[p] = "NotEligible" =>
            /\ OpsOf(p) = <<>>
            /\ wiki[p] = start[p]
            /\ (p \in members <=> p \in startMembers)

\* C10 witness: a run that is done skipped a page whose marker lacks the pipe
\* and archived another page
C10_Witness ==
    /\ pc = "done"
    /\ ops # <<>>
    /\ \E p \in Ids :
          /\ outcome[p] = "NotEligible"
          /\ start[p].text = <<"FLAG", "\n">> \o NoPipeMarker

====
